---- MODULE Spec2Model ----
(***************************************************************************)
(* Model of VitiScan Pro's Streamlit front end (app.py): the EXIF          *)
(* extractor get_exif_data, the module-level default date NOW, and the     *)
(* script run main() with its session state.                               *)
(*                                                                         *)
(* Representation.                                                         *)
(*   - A Python string is a sequence of one-character strings.             *)
(*   - A Python number (int, float, IFDRational) is an exact rational      *)
(*     <<n, d>> in lowest terms, d > 0.  The double rounding of            *)
(*     int + int/60 + int/3600 (below 1e-13 for |x| < 1000) is not         *)
(*     modelled; no claim depends on it.                                   *)
(*   - An element of a GPS tuple is a record [k, n, d]: k = "num" is the   *)
(*     number n/d (d = 0: an IFDRational with a zero denominator, a NaN),  *)
(*     k = "none" is a value int() rejects.                                *)
(***************************************************************************)
EXTENDS Integers, Sequences, FiniteSets, TLC

\* ------------------------------------------------------------- numbers

\* The value of F at e, with e evaluated once.
Let(e, F(_)) == CHOOSE v \in {F(x) : x \in {e}} : TRUE

GCD[a \in Nat, b \in Nat] == IF b = 0 THEN a ELSE GCD[b, a % b]

Abs(x) == IF x < 0 THEN -x ELSE x

LCM(a, b) == (a \div GCD[a, b]) * b

\* The rational n/d in lowest terms (d > 0).
Rat(n, d) == Let(GCD[Abs(n), d], LAMBDA g : <<n \div g, d \div g>>)

RatAdd(x, y) ==
    Let(LCM(x[2], y[2]),
        LAMBDA l : Rat(x[1] * (l \div x[2]) + y[1] * (l \div y[2]), l))

RatSub(x, y) == RatAdd(x, <<-y[1], y[2]>>)

RatDivInt(x, k) == Rat(x[1], x[2] * k)

RatLeq(x, y) == RatSub(x, y)[1] <= 0

RatAbs(x) == <<Abs(x[1]), x[2]>>

\* The float literal 0.0 of `lon,lat,date = 0.0, 0.0, NOW`.
Zero == <<0, 1>>

\* ------------------------------------------------------------- strings

Digits == <<"0", "1", "2", "3", "4", "5", "6", "7", "8", "9">>

IsDigit(c) == \E k \in 1..10 : Digits[k] = c

DigitVal(c) == (CHOOSE k \in 1..10 : Digits[k] = c) - 1

\* str.isspace of one character (re's \s)
IsSpace(c) == c \in {" ", "\t"}

\* %02d
Pad2(n) == <<Digits[((n \div 10) % 10) + 1], Digits[(n % 10) + 1]>>

\* %04d
Pad4(n) == Pad2(n \div 100) \o Pad2(n % 100)

\* %d
RECURSIVE Decimal(_)
Decimal(n) == IF n < 10 THEN <<Digits[n + 1]>>
              ELSE Decimal(n \div 10) \o <<Digits[(n % 10) + 1]>>

\* ------------------------------------------------------------- datetime

IsLeap(y) == (y % 4 = 0) /\ ((y % 100 # 0) \/ (y % 400 = 0))

DaysInMonth(y, m) ==
    IF m = 2 THEN (IF IsLeap(y) THEN 29 ELSE 28)
    ELSE IF m \in {4, 6, 9, 11} THEN 30 ELSE 31

\* The range checks of the datetime constructor (ValueError otherwise).
DatetimeOk(y, m, d, H, M, S) ==
    /\ y \in 1..9999
    /\ m \in 1..12
    /\ d \in 1..DaysInMonth(y, m)
    /\ H \in 0..23
    /\ M \in 0..59
    /\ S \in 0..59

NoDatetime == [ok |-> FALSE, year |-> 0, month |-> 0, day |-> 0,
               hour |-> 0, minute |-> 0, second |-> 0]

\* The number of digits of s from position i on.
RECURSIVE DigitRun(_, _)
DigitRun(s, i) ==
    IF i <= Len(s) /\ IsDigit(s[i]) THEN 1 + DigitRun(s, i + 1) ELSE 0

\* The number of whitespace characters of s from position i on.
RECURSIVE SpaceRun(_, _)
SpaceRun(s, i) ==
    IF i <= Len(s) /\ IsSpace(s[i]) THEN 1 + SpaceRun(s, i + 1) ELSE 0

\* int() of the n digits of s from position i on.
RECURSIVE Number(_, _, _)
Number(s, i, n) ==
    IF n = 0 THEN 0
    ELSE 10 * Number(s, i, n - 1) + DigitVal(s[i + n - 1])

\* The regular expression strptime compiles "%Y:%m:%d %H:%M:%S" to:
\*   (\d\d\d\d):(1[0-2]|0[1-9]|[1-9]):(3[0-1]|[1-2]\d|0[1-9]|[1-9]| [1-9])
\*   \s+(2[0-3]|[0-1]\d|\d):([0-5]\d|\d):(6[0-1]|[0-5]\d|\d)
\* as the sequence of its parts.  A directive is a run of lo..hi digits
\* with a value in from..to; each is followed by a character that is no
\* digit or by the end, so it can only match a whole run of digits.
Dir(name, lo, hi, from, to) ==
    [kind |-> "dir", name |-> name, lo |-> lo, hi |-> hi,
     from |-> from, to |-> to]

Lit == [kind |-> "lit", name |-> ":", lo |-> 0, hi |-> 0, from |-> 0, to |-> 0]

Spaces == [kind |-> "spaces", name |-> " ", lo |-> 0, hi |-> 0,
           from |-> 0, to |-> 0]

Format ==
    << Dir("Y", 4, 4, 0, 9999), Lit, Dir("m", 1, 2, 1, 12), Lit,
       Dir("d", 1, 2, 1, 31), Spaces, Dir("H", 1, 2, 0, 23), Lit,
       Dir("M", 1, 2, 0, 59), Lit, Dir("S", 1, 2, 0, 61) >>

NoFields == [Y |-> 0, m |-> 0, d |-> 0, H |-> 0, M |-> 0, S |-> 0]

Mismatch == [ok |-> FALSE, pos |-> 0, val |-> NoFields]

\* The digits of directive p at st.pos.
MatchDigits(s, st, p) ==
    Let(DigitRun(s, st.pos), LAMBDA n :
        IF n \in p.lo..p.hi
        THEN Let(Number(s, st.pos, n), LAMBDA v :
                 IF v \in p.from..p.to
                 THEN [ok |-> TRUE, pos |-> st.pos + n,
                       val |-> [st.val EXCEPT ![p.name] = v]]
                 ELSE Mismatch)
        ELSE Mismatch)

\* One part of the expression matched at st.pos.
Match(s, st, p) ==
    IF p.kind = "lit"
    THEN IF st.pos <= Len(s) /\ s[st.pos] = p.name
         THEN [st EXCEPT !.pos = st.pos + 1] ELSE Mismatch
    ELSE IF p.kind = "spaces"
    THEN Let(SpaceRun(s, st.pos), LAMBDA n :
             IF n >= 1 THEN [st EXCEPT !.pos = st.pos + n] ELSE Mismatch)
    ELSE IF /\ p.name = "d"
            /\ st.pos + 1 <= Len(s)
            /\ s[st.pos] = " "
            /\ IsDigit(s[st.pos + 1])
            /\ DigitVal(s[st.pos + 1]) >= 1
            /\ DigitRun(s, st.pos + 1) = 1
    THEN \* %d also matches a space followed by one of 1..9
         [ok |-> TRUE, pos |-> st.pos + 2,
          val |-> [st.val EXCEPT !.d = DigitVal(s[st.pos + 1])]]
    ELSE MatchDigits(s, st, p)

\* The parts from the k-th on, matched from state st.
RECURSIVE MatchFrom(_, _, _)
MatchFrom(s, st, k) ==
    IF k > Len(Format) THEN st
    ELSE Let(Match(s, st, Format[k]), LAMBDA nx :
             IF nx.ok THEN MatchFrom(s, nx, k + 1) ELSE nx)

\* datetime.strptime(value, "%Y:%m:%d %H:%M:%S"); ok = FALSE when it raises:
\* TypeError for a value that is no string, ValueError when the string does
\* not match, when characters remain after the match, or when datetime
\* rejects the fields.
Strptime(value) ==
    IF ~value.str THEN NoDatetime
    ELSE Let(MatchFrom(value.chars, [ok |-> TRUE, pos |-> 1, val |-> NoFields],
                       1),
             LAMBDA st :
        IF /\ st.ok
           /\ st.pos = Len(value.chars) + 1
           /\ DatetimeOk(st.val.Y, st.val.m, st.val.d,
                         st.val.H, st.val.M, st.val.S)
        THEN [ok |-> TRUE, year |-> st.val.Y, month |-> st.val.m,
              day |-> st.val.d, hour |-> st.val.H, minute |-> st.val.M,
              second |-> st.val.S]
        ELSE NoDatetime)

\* %Y of strftime: the C library's; glibc writes a year below 1000 without
\* leading zeros, other libraries pad it to four digits.
StrftimeYear(y, pads) == IF pads THEN Pad4(y) ELSE Decimal(y)

\* dt.strftime("%Y-%m-%d")
StrftimeDate(dt, pads) ==
    StrftimeYear(dt.year, pads) \o <<"-">> \o Pad2(dt.month) \o <<"-">>
        \o Pad2(dt.day)

\* dt.strftime("%Y-%m-%d %H:%M:%S")
StrftimeDateTime(dt, pads) ==
    StrftimeDate(dt, pads) \o <<" ">> \o Pad2(dt.hour) \o <<":">>
        \o Pad2(dt.minute) \o <<":">> \o Pad2(dt.second)

\* ------------------------------------------------------------- EXIF values

Num(n, d) == [k |-> "num", n |-> n, d |-> d]

I(n) == Num(n, 1)

NotANumber == [k |-> "none", n |-> 0, d |-> 1]

Str(chars) == [str |-> TRUE, chars |-> chars]

NotAString == [str |-> FALSE, chars |-> <<>>]

\* int(x) raises: TypeError for a value that is no number, ValueError for
\* an IFDRational whose denominator is zero (its value is NaN).
IntRaises(e) == e.k # "num" \/ e.d = 0

\* int(x): truncation towards zero.
ToInt(e) == IF e.n >= 0 THEN e.n \div e.d ELSE -((-e.n) \div e.d)

\* `degre,minute,seconde = value[key]` followed by the three int() calls
\* goes through: the sub-key exists (no KeyError), holds three elements (no
\* ValueError on unpacking) and each converts.
DmsReads(value, key) ==
    /\ key \in DOMAIN value
    /\ Len(value[key]) = 3
    /\ \A i \in 1..3 : ~IntRaises(value[key][i])

\* int(degre) + int(minute)/60 + int(seconde)/3600
DmsToDecimal(t) ==
    RatAdd(RatAdd(<<ToInt(t[1]), 1>>, RatDivInt(<<ToInt(t[2]), 1>>, 60)),
           RatDivInt(<<ToInt(t[3]), 1>>, 3600))

TAG_MAKE == 271
TAG_GPS_INFO == 34853
TAG_DATE_TIME_ORIGINAL == 36867

\* ExifTags.TAGS.get(tag, tag)
Decoded(tag) ==
    IF tag = TAG_GPS_INFO THEN "GPSInfo"
    ELSE IF tag = TAG_DATE_TIME_ORIGINAL THEN "DateTimeOriginal"
    ELSE IF tag = TAG_MAKE THEN "Make"
    ELSE "unknown"

\* ------------------------------------------------------------- get_exif_data

\* Mutant of Locals: the date starts as the empty string.
Locals_EmptyDate(now) == [lon |-> Zero, lat |-> Zero, date |-> <<>>]

\* The locals after `lon,lat,date = 0.0, 0.0, NOW`.
Locals(now) == [lon |-> Zero, lat |-> Zero, date |-> now]

\* Mutant of GpsInfoBranch: the hemisphere references under sub-keys 1 and
\* 3 are consulted, South and West making the value negative.
GpsInfoBranch_HemisphereSign(l, value) ==
    IF ~DmsReads(value, 2) THEN [raised |-> TRUE, l |-> l]
    ELSE LET south == 1 \in DOMAIN value /\ value[1] = <<"S">>
             west  == 3 \in DOMAIN value /\ value[3] = <<"W">>
             lat   == DmsToDecimal(value[2])
             l1    == [l EXCEPT !.lat = IF south THEN RatSub(Zero, lat)
                                         ELSE lat]
         IN  IF ~DmsReads(value, 4) THEN [raised |-> TRUE, l |-> l1]
             ELSE [raised |-> FALSE,
                   l |-> [l1 EXCEPT !.lon =
                            IF west THEN RatSub(Zero, DmsToDecimal(value[4]))
                            ELSE DmsToDecimal(value[4])]]

\* The body of `if decoded == "GPSInfo":` on the locals l: an exception
\* leaves the branch at the statement that raises, with the assignments made
\* before it in place.
GpsInfoBranch(l, value) ==
    IF ~DmsReads(value, 2) THEN [raised |-> TRUE, l |-> l]
    ELSE LET l1 == [l EXCEPT !.lat = DmsToDecimal(value[2])]
         IN  IF ~DmsReads(value, 4) THEN [raised |-> TRUE, l |-> l1]
             ELSE [raised |-> FALSE,
                   l |-> [l1 EXCEPT !.lon = DmsToDecimal(value[4])]]

\* Mutant of DateTimeOriginalBranch: no inner try, so a timestamp that does
\* not parse raises out of the loop.
DateTimeOriginalBranch_NoTry(l, value, pads) ==
    Let(Strptime(value), LAMBDA dt :
        IF dt.ok
        THEN [raised |-> FALSE,
              l |-> [l EXCEPT !.date = StrftimeDateTime(dt, pads)]]
        ELSE [raised |-> TRUE, l |-> l])

\* The body of `elif decoded == "DateTimeOriginal":`, a try whose bare except
\* passes: nothing is raised, and date is assigned only when strptime
\* returned.
DateTimeOriginalBranch(l, value, pads) ==
    Let(Strptime(value), LAMBDA dt :
        [raised |-> FALSE,
         l |-> IF dt.ok THEN [l EXCEPT !.date = StrftimeDateTime(dt, pads)]
               ELSE l])

\* One iteration of `for tag, value in exif.items():`.
LoopBody(l, item, pads) ==
    IF Decoded(item.tag) = "GPSInfo" THEN GpsInfoBranch(l, item.value)
    ELSE IF Decoded(item.tag) = "DateTimeOriginal"
         THEN DateTimeOriginalBranch(l, item.value, pads)
    ELSE [raised |-> FALSE, l |-> l]

\* The for loop from item i on: an exception ends it.
RECURSIVE ForItems(_, _, _, _)
ForItems(l, items, i, pads) ==
    IF i > Len(items) THEN [raised |-> FALSE, l |-> l]
    ELSE Let(LoopBody(l, items[i], pads), LAMBDA r :
             IF r.raised THEN r ELSE ForItems(r.l, items, i + 1, pads))

\* The try block of get_exif_data on the opened file f:
\*   f.opens  Image.open(image) returns (it raises for None, for bytes that
\*            are no image)
\*   f.none   img._getexif() returns None
\*   f.items  otherwise, the items of the dictionary it returns, in the
\*            order of iteration
TryBlock(f, now, pads) ==
    Let(Locals(now), LAMBDA l :
        IF ~f.opens THEN [raised |-> TRUE, l |-> l]
        ELSE IF f.none \/ Len(f.items) = 0 THEN [raised |-> FALSE, l |-> l]
        ELSE ForItems(l, f.items, 1, pads))

\* Mutant of ExceptPass: the exception is raised again.
ExceptPass_Reraise(r) == r

\* `except Exception as e: pass`: whatever the try block raised is dropped.
ExceptPass(r) == [raised |-> FALSE, l |-> r.l]

\* get_exif_data(image): raised = an exception leaves the function,
\* otherwise (lon, lat, date) is returned.
GetExifData(f, now, pads) ==
    Let(ExceptPass(TryBlock(f, now, pads)), LAMBDA r :
        [raised |-> r.raised, lon |-> r.l.lon, lat |-> r.l.lat,
         date |-> r.l.date])

\* ------------------------------------------------------------- inputs

ParisLat == <<I(48), I(51), I(30)>>
ParisLon == <<I(2), I(21), I(5)>>

\* The GPS blocks (the value of tag 34853) the images carry: a function from
\* sub-keys to values; 1 and 3 are the hemisphere references, 2 and 4 the
\* latitude and longitude tuples.
\*   1  the test suite's Paris block, with references
\*   2  (0,0,0) on both axes
\*   3  the largest degrees and minutes, 58 seconds
\*   4  rational seconds (43 46' 3.26", 3 50' 49.44"), as cameras write them
\*   5  sub-key 4 missing
\*   6  sub-key 2 missing
\*   7  sub-key 4 of arity 2
\*   8  a NaN (zero denominator) in sub-key 2
\*   9  the Paris values with South and West references
GpsBlocks ==
    << (1 :> <<"N">>) @@ (2 :> ParisLat) @@ (3 :> <<"E">>) @@ (4 :> ParisLon),
       (2 :> <<I(0), I(0), I(0)>>) @@ (4 :> <<I(0), I(0), I(0)>>),
       (2 :> <<I(89), I(59), I(58)>>) @@ (4 :> <<I(179), I(59), I(58)>>),
       (2 :> <<I(43), I(46), Num(326, 100)>>)
            @@ (4 :> <<I(3), I(50), Num(4944, 100)>>),
       (1 :> <<"N">>) @@ (2 :> ParisLat),
       (3 :> <<"E">>) @@ (4 :> ParisLon),
       (2 :> ParisLat) @@ (4 :> <<I(2), I(21)>>),
       (2 :> <<I(48), I(51), Num(0, 0)>>) @@ (4 :> ParisLon),
       (1 :> <<"S">>) @@ (2 :> ParisLat) @@ (3 :> <<"W">>) @@ (4 :> ParisLon) >>

\* The values of tag 36867 the images carry.
\*   1  "2024:06:15 10:30:00"  the test suite's valid timestamp
\*   2  "2024:02:29 23:59:59"  a leap day, the last second of the day
\*   3  "0999:01:01 00:00:00"  a valid timestamp of a year below 1000
\*   4  "2024:6:5 1:2:3"       no leading zeros: strptime accepts it
\*   5  "not-a-date"           the test suite's malformed timestamp
\*   6  "2023:02:29 10:30:00"  the format matches, the day does not exist
\*   7  "2024:06:15 10:30:60"  the format matches, datetime rejects second 60
\*   8  "2024-06-15 10:30:00"  ISO separators
\*   9  a value that is no string
Timestamps ==
    <<
       Str(<<"2", "0", "2", "4", ":", "0", "6", ":", "1", "5", " ", "1", "0", ":", "3", "0", ":", "0", "0">>),
       Str(<<"2", "0", "2", "4", ":", "0", "2", ":", "2", "9", " ", "2", "3", ":", "5", "9", ":", "5", "9">>),
       Str(<<"0", "9", "9", "9", ":", "0", "1", ":", "0", "1", " ", "0", "0", ":", "0", "0", ":", "0", "0">>),
       Str(<<"2", "0", "2", "4", ":", "6", ":", "5", " ", "1", ":", "2", ":", "3">>),
       Str(<<"n", "o", "t", "-", "a", "-", "d", "a", "t", "e">>),
       Str(<<"2", "0", "2", "3", ":", "0", "2", ":", "2", "9", " ", "1", "0", ":", "3", "0", ":", "0", "0">>),
       Str(<<"2", "0", "2", "4", ":", "0", "6", ":", "1", "5", " ", "1", "0", ":", "3", "0", ":", "6", "0">>),
       Str(<<"2", "0", "2", "4", "-", "0", "6", "-", "1", "5", " ", "1", "0", ":", "3", "0", ":", "0", "0">>),
       NotAString >>

\* An image: what Image.open and img._getexif make of the bytes.
\*   kind "none"     no file (main passes uploaded_file = None)
\*        "corrupt"  bytes that are no image
\*        "noexif"   an image without metadata (_getexif returns None)
\*        "exif"     an image whose metadata holds GPS block gps and
\*                   timestamp ts (0: the tag is absent), the GPS tag first
\*                   in the dictionary iff gpsFirst; a dictionary with
\*                   neither tag is empty
\*        "make"     an image whose metadata holds only the camera's make
Image(kind, gps, ts, gpsFirst) ==
    [kind |-> kind, gps |-> gps, ts |-> ts, gpsFirst |-> gpsFirst]

NoImage == Image("none", 0, 0, TRUE)

Images ==
    {Image(k, 0, 0, TRUE) : k \in {"none", "corrupt", "noexif", "make"}}
    \cup {Image("exif", g, t, TRUE) :
            g \in 0..Len(GpsBlocks), t \in 0..Len(Timestamps)}
    \cup {Image("exif", g, t, FALSE) :
            g \in 1..Len(GpsBlocks), t \in 1..Len(Timestamps)}

GpsItem(img) == [tag |-> TAG_GPS_INFO, value |-> GpsBlocks[img.gps]]

DateItem(img) == [tag |-> TAG_DATE_TIME_ORIGINAL, value |-> Timestamps[img.ts]]

\* The items of the dictionary img._getexif() returns.
Items(img) ==
    IF img.kind = "make" THEN <<[tag |-> TAG_MAKE, value |-> Str(<<"X">>)]>>
    ELSE IF img.kind # "exif" THEN <<>>
    ELSE LET g == IF img.gps = 0 THEN <<>> ELSE <<GpsItem(img)>>
             t == IF img.ts = 0 THEN <<>> ELSE <<DateItem(img)>>
         IN  IF img.gpsFirst THEN g \o t ELSE t \o g

\* Image.open(image) followed by img._getexif().
Opened(img) ==
    [opens |-> img.kind \notin {"none", "corrupt"},
     none  |-> img.kind = "noexif",
     items |-> Items(img)]

\* ------------------------------------------------------------- the clock

\* The wall clock advances by at most MaxTicks days.
MaxTicks == 2

\* The calendar date on which the process starts.
ProcessStart == [year |-> 2024, month |-> 12, day |-> 30,
                 hour |-> 9, minute |-> 0, second |-> 0]

NextDay(dt) ==
    IF dt.day < DaysInMonth(dt.year, dt.month)
    THEN [dt EXCEPT !.day = dt.day + 1]
    ELSE IF dt.month < 12
    THEN [dt EXCEPT !.day = 1, !.month = dt.month + 1]
    ELSE [dt EXCEPT !.day = 1, !.month = 1, !.year = dt.year + 1]

\* datetime.now() when the wall clock is k days after the start.
DatetimeNow[k \in Nat] ==
    IF k = 0 THEN ProcessStart ELSE Let(DatetimeNow[k - 1], NextDay)

\* NOW = datetime.now().strftime("%Y-%m-%d"), evaluated when the module's
\* body runs.
ModuleNow(k, pads) == StrftimeDate(DatetimeNow[k], pads)

NoCall == [called |-> FALSE, img |-> NoImage, clock |-> 0, raised |-> FALSE,
           lon |-> Zero, lat |-> Zero, date |-> <<>>]

\* ------------------------------------------------------------- session

\* A value of st.session_state: None, a float, a string, or a dictionary
\* (a JSON object, kept as the name of its shape).
None == [type |-> "none", v |-> <<>>]

Float(x) == [type |-> "float", v |-> x]

String(chars) == [type |-> "str", v |-> chars]

Dict(shape) == [type |-> "dict", v |-> <<shape>>]

\* bool(x)
Truthy(x) ==
    IF x.type = "none" THEN FALSE
    ELSE IF x.type = "float" THEN x.v # Zero
    ELSE IF x.type = "str" THEN Len(x.v) > 0
    ELSE x.v # <<"{}">>

SESSION_VARS == <<"payload", "solutions", "diagnostic", "img_date",
                  "img_long", "img_lat", "previous_file">>

SESSION_CONTAINERS == <<"vitiscan_form", "container_diagno",
                        "container_solutions">>

Keys(seq) == {seq[i] : i \in 1..Len(seq)}

\* st.session_state.get(key); the session is the function from the keys it
\* holds to their values.
Get(ss, key) == IF key \in DOMAIN ss THEN ss[key] ELSE None

\* for key in keys: if st.session_state.get(key): del st.session_state[key]
DeleteTruthy(ss, keys) ==
    [k \in (DOMAIN ss) \ {j \in Keys(keys) : Truthy(Get(ss, j))} |-> ss[k]]

\* Mutant of ResetFormAndContainers: only the containers are reset.
ResetFormAndContainers_ContainersOnly(ss) ==
    DeleteTruthy(ss, SESSION_CONTAINERS)

\* reset_form_and_containers()
ResetFormAndContainers(ss) ==
    DeleteTruthy(DeleteTruthy(ss, SESSION_VARS), SESSION_CONTAINERS)

\* for key in SESSION_VARS: if key not in st.session_state: ... = None
InitSessionVars(ss) ==
    [k \in (DOMAIN ss) \cup Keys(SESSION_VARS) |->
        IF k \in DOMAIN ss THEN ss[k] ELSE None]

\* ------------------------------------------------------------- main

\* What a script run has put on the page.
\*   uploader   the file uploader and the diagnosis button
\*   removed    "Fichier supprime"
\*   map        the folium map, with its marker at center = <<lat, lon>>
\*   warning    "Aucune donnee de localisation trouvee dans l'image."
\*   diagnosed  "Diagnostic termine.": call_api_diagnostic has returned
\*              and its answer is in the session
\*   diagno     the diagnosis container
\*   form       the action-plan form
\*   planned    "Plan d'action termine.": call_api_solutions has returned
\*              and what it returned is in the session
\*   failed     "Impossible de calculer le plan d'actions": the call of
\*              call_api_solutions raised
\*   plan       the treatment plan of the solutions section
\*   exception  the run ended with an exception no handler caught
Blank == [uploader |-> FALSE, removed |-> FALSE, map |-> FALSE, center |-> <<Zero, Zero>>,
          warning |-> FALSE, diagnosed |-> FALSE, diagno |-> FALSE,
          form |-> FALSE, planned |-> FALSE, failed |-> FALSE,
          plan |-> FALSE, exception |-> FALSE]

\* The value of `lon is not None`: get_exif_data returns numbers.
IsNotNone(x) == x[2] > 0

\* The state of a script run: the session, the position of the uploaded
\* file's stream (0: at the start), the page, the call of get_exif_data the
\* run made, and whether an exception has ended it.
RunState(ss, pos, page, call, over) ==
    [ss |-> ss, pos |-> pos, page |-> page, call |-> call, over |-> over]

\* Mutant of UploaderSection: the uploaded file's name is kept in
\* previous_file.
UploaderSection_KeepsPrevious(r, file) ==
    IF file # NoImage
    THEN [r EXCEPT !.page.uploader = TRUE, !.pos = 0,
                   !.ss["previous_file"] = String(<<"f">>)]
    ELSE IF r.ss["previous_file"].type # "none"
    THEN [r EXCEPT !.page.uploader = TRUE, !.page.removed = TRUE,
                   !.ss = DeleteTruthy(r.ss, SESSION_VARS),
                   !.over = TRUE]
    ELSE [r EXCEPT !.page.uploader = TRUE]

\* Lines 212-226: the uploader, st.image (which rewinds the stream and takes
\* its bytes), and the branch for a removed file, which deletes the session
\* variables and reruns the script: the run ends there.
UploaderSection(r, file) ==
    IF file # NoImage
    THEN [r EXCEPT !.page.uploader = TRUE, !.pos = 0]
    ELSE IF r.ss["previous_file"].type # "none"
    THEN [r EXCEPT !.page.uploader = TRUE, !.page.removed = TRUE,
                   !.ss = DeleteTruthy(r.ss, SESSION_VARS),
                   !.over = TRUE]
    ELSE [r EXCEPT !.page.uploader = TRUE]

\* Lines 228-243: with the button clicked and a file present,
\* call_api_diagnostic posts the file (reading its stream to the end) and
\* its answer is stored; requests.post or response.json() raising ends the
\* run.  dresp is what the call does: "raise", or the shape of the
\* dictionary it returns ("predictions", "error", "{}").
DiagnosticSection(r, file, submit, dresp) ==
    IF r.over \/ ~(submit /\ file # NoImage) THEN r
    ELSE IF dresp = "raise"
    THEN [r EXCEPT !.pos = 1, !.page.exception = TRUE, !.over = TRUE]
    ELSE [r EXCEPT !.pos = 1, !.ss["diagnostic"] = Dict(dresp),
                   !.page.diagnosed = TRUE]

\* Mutant of ImageOpen: the stream is read from where it stands.
ImageOpen_NoRewind(img, pos) ==
    [Opened(img) EXCEPT !.opens = Opened(img).opens /\ pos = 0]

\* Image.open(image) on a stream at position pos: it rewinds the stream
\* before it reads.
ImageOpen(img, pos) == Opened(img)

\* The record of a call of get_exif_data at wall clock k, on image img
\* whose stream stands at pos.
CallOf(img, pos, k, now, pads) ==
    [called |-> TRUE, img |-> img, clock |-> k]
        @@ GetExifData(ImageOpen(img, pos), now, pads)

\* Lines 245-261: get_exif_data, its result saved in the session, and the
\* map or the warning.
MapSection(r, file, k, now, pads) ==
    IF r.over THEN r
    ELSE Let(CallOf(file, r.pos, k, now, pads), LAMBDA c :
        IF c.raised
        THEN [r EXCEPT !.call = c, !.page.exception = TRUE, !.over = TRUE]
        ELSE [r EXCEPT
                !.call = c,
                !.pos = IF file = NoImage THEN r.pos ELSE 1,
                !.ss = [r.ss EXCEPT !["img_long"] = Float(c.lon),
                                    !["img_lat"] = Float(c.lat),
                                    !["img_date"] = String(c.date)],
                !.page.map = IsNotNone(c.lon) /\ IsNotNone(c.lat),
                !.page.center = <<c.lat, c.lon>>,
                !.page.warning = ~(IsNotNone(c.lon) /\ IsNotNone(c.lat))])

\* Lines 337-348: call_api_solutions inside try/except.  sresp is what the
\* call does: "raise", "None" (a status other than 200: the function returns
\* nothing), or the shape of the JSON it returns ("data": with a data
\* member, "other": without one, "{}").
PlanRequest(r, sresp) ==
    IF sresp = "raise" THEN [r EXCEPT !.page.failed = TRUE]
    ELSE IF sresp = "None"
    THEN [r EXCEPT !.ss["solutions"] = None, !.page.planned = TRUE]
    ELSE [r EXCEPT !.ss["solutions"] = Dict(sresp), !.page.planned = TRUE]

\* Lines 264-351: with a diagnostic in the session, the diagnosis container
\* and the form; the payload is stored, and a submitted form requests the
\* plan.
FormSection(r, submitted, sresp) ==
    IF r.over \/ ~Truthy(r.ss["diagnostic"]) THEN r
    ELSE Let([r EXCEPT !.page.diagno = TRUE, !.page.form = TRUE,
                       !.ss["payload"] = Dict("payload")],
             LAMBDA q :
        IF submitted /\ Truthy(q.ss["payload"])
        THEN PlanRequest(q, sresp) ELSE q)

\* Lines 354-400: the solutions section.
SolutionsSection(r) ==
    IF r.over \/ ~Truthy(r.ss["solutions"]) THEN r
    ELSE [r EXCEPT !.page.plan = (r.ss["solutions"].v = <<"data">>)]

\* main() on session ss: the widget values of the run are file (the
\* uploader), submit (the diagnosis button) and submitted (the form's
\* button).  get_diseases() failing (diseases = FALSE) ends the run at line
\* 178, before anything is shown.
Main(ss, pos, file, submit, submitted, diseases, dresp, sresp, k, now, pads) ==
    IF ~diseases
    THEN RunState(ss, pos, [Blank EXCEPT !.exception = TRUE], NoCall, TRUE)
    ELSE
    Let(UploaderSection(
            RunState(InitSessionVars(ss), pos, Blank, NoCall, FALSE), file),
        LAMBDA r1 :
    Let(DiagnosticSection(r1, file, submit, dresp), LAMBDA r2 :
    Let(MapSection(r2, file, k, now, pads), LAMBDA r3 :
    Let(FormSection(r3, submitted, sresp), LAMBDA r4 :
        SolutionsSection(r4)))))

\* ------------------------------------------------------------- state

\* The images the user uploads.
Uploads ==
    { Image("exif", 1, 1, TRUE), Image("exif", 4, 5, FALSE),
      Image("exif", 5, 1, TRUE), Image("exif", 2, 0, TRUE),
      Image("noexif", 0, 0, TRUE), Image("corrupt", 0, 0, TRUE) }

VARIABLES
    clock,          \* the wall clock: days since the process started
    padsYear,       \* the C library's %Y pads the year to four digits
    NOW,            \* the module-level NOW
    ret,            \* the call of get_exif_data made by the last call
                    \* step or script run (NoCall: none): its argument,
                    \* the wall clock at the call and what it returned
    first,          \* the first call of get_exif_data on an uploaded file
    uploaded_file,  \* the value of the file uploader (NoImage: None)
    fpos,           \* the position of the uploaded file's stream
    session,        \* st.session_state
    page,           \* what the last script run displayed
    diseases,       \* get_diseases() has returned: st.cache_data holds it
    diagnosedUpload \* call_api_diagnostic has returned for the file the
                    \* uploader holds, since that file was put there

libVars == <<clock, padsYear, NOW, ret>>

appVars == <<first, uploaded_file, fpos, session, page, diseases,
             diagnosedUpload>>

vars == <<clock, padsYear, NOW, ret, first, uploaded_file, fpos, session,
          page, diseases, diagnosedUpload>>

\* The state once the module's body has run in a new process, before any
\* call and any script run: the session is empty, the page blank.
Init ==
    /\ clock = 0
    /\ padsYear \in BOOLEAN
    /\ NOW = ModuleNow(0, padsYear)
    /\ ret = NoCall
    /\ first = NoCall
    /\ uploaded_file = NoImage
    /\ fpos = 0
    /\ session = <<>>
    /\ page = Blank
    /\ diseases = FALSE
    /\ diagnosedUpload = FALSE

\* A day passes.
Tick ==
    /\ clock < MaxTicks
    /\ clock' = clock + 1
    /\ UNCHANGED <<padsYear, NOW, ret, appVars>>

\* The importing process calls get_exif_data(image) on a new stream, as the
\* test suite does.
Call ==
    \E img \in Images :
        /\ ret' = CallOf(img, 0, clock, NOW, padsYear)
        /\ UNCHANGED <<clock, padsYear, NOW, appVars>>

Next == Tick \/ Call

\* The module imported and get_exif_data called, as by the test suite.
Spec == Init /\ [][Next]_vars

\* A script run of the Streamlit application on session ss: the module's
\* body runs again (NOW is assigned), then main().  up: the diagnosis
\* service answers get_diseases (asked only while nothing is cached).
\* changed: the run follows a change of the uploader's value.
ScriptRun(ss, file, changed, pos, submit, submitted, up, dresp, sresp) ==
    \E r \in {Main(ss, pos, file, submit, submitted, diseases \/ up, dresp,
                   sresp, clock, ModuleNow(clock, padsYear), padsYear)} :
        /\ NOW' = ModuleNow(clock, padsYear)
        /\ uploaded_file' = file
        /\ fpos' = r.pos
        /\ session' = r.ss
        /\ page' = r.page
        /\ diseases' = (diseases \/ up)
        /\ diagnosedUpload' = IF r.page.diagnosed THEN TRUE
                              ELSE ~changed /\ diagnosedUpload
        /\ ret' = r.call
        /\ first' = IF ~first.called /\ r.call.called /\ file # NoImage
                    THEN r.call ELSE first
        /\ UNCHANGED <<clock, padsYear>>

\* get_diseases() asks the service only while st.cache_data holds nothing.
DiseasesAnswers == IF diseases THEN {TRUE} ELSE BOOLEAN

DiagnosticAnswers == {"predictions", "error", "{}", "raise"}

SolutionsAnswers == {"data", "other", "{}", "None", "raise"}

\* The browser (re)runs the script with no widget changed.
Rerun ==
    \E up \in DiseasesAnswers :
        ScriptRun(session, uploaded_file, FALSE, fpos, FALSE, FALSE, up,
                  "raise", "raise")

\* The user uploads a file: on_change runs reset_form_and_containers, then
\* the script runs.
Upload ==
    /\ page.uploader
    /\ \E img \in Uploads, up \in DiseasesAnswers :
        ScriptRun(ResetFormAndContainers(session), img, TRUE, 0, FALSE, FALSE, up,
                  "raise", "raise")

\* The user removes the file: on_change, then the script runs.
Remove ==
    /\ page.uploader
    /\ uploaded_file # NoImage
    /\ \E up \in DiseasesAnswers :
        ScriptRun(ResetFormAndContainers(session), NoImage, TRUE, 0, FALSE,
                  FALSE, up, "raise", "raise")

\* The user clicks "Lancer le diagnostic" (disabled without a file).
Diagnose ==
    /\ page.uploader
    /\ uploaded_file # NoImage
    /\ \E up \in DiseasesAnswers, dresp \in DiagnosticAnswers :
        ScriptRun(session, uploaded_file, FALSE, fpos, TRUE, FALSE, up, dresp,
                  "raise")

\* The user submits the action-plan form.
SubmitForm ==
    /\ page.form
    /\ \E up \in DiseasesAnswers, sresp \in SolutionsAnswers :
        ScriptRun(session, uploaded_file, FALSE, fpos, FALSE, TRUE, up, "raise",
                  sresp)

NextApp == Tick \/ Rerun \/ Upload \/ Remove \/ Diagnose \/ SubmitForm

\* The Streamlit application: streamlit run app.py.
SpecApp == Init /\ [][NextApp]_vars

\* ------------------------------------------------------------- claims
\* What the claims speak of, stated from the input alone.

HasGps(img) == img.kind = "exif" /\ img.gps # 0

HasTimestamp(img) == img.kind = "exif" /\ img.ts # 0

BlockOf(img) == GpsBlocks[img.gps]

TimestampOf(img) == Timestamps[img.ts]

\* A sexagesimal angle: three numbers.
IsAngle(t) == Len(t) = 3 /\ \A i \in 1..3 : t[i].k = "num" /\ t[i].d > 0

\* A well-formed GPS block: an angle under sub-key 2 and under sub-key 4.
WellFormedGps(b) ==
    /\ 2 \in DOMAIN b /\ IsAngle(b[2])
    /\ 4 \in DOMAIN b /\ IsAngle(b[4])

\* The timestamp is written exactly as YYYY:MM:DD HH:MM:SS and names a
\* moment that exists.
IsExifTimestamp(v) ==
    /\ v.str
    /\ Len(v.chars) = 19
    /\ \A i \in {5, 8, 14, 17} : v.chars[i] = ":"
    /\ v.chars[11] = " "
    /\ \A i \in (1..19) \ {5, 8, 11, 14, 17} : IsDigit(v.chars[i])
    /\ DatetimeOk(Number(v.chars, 1, 4), Number(v.chars, 6, 2),
                  Number(v.chars, 9, 2), Number(v.chars, 12, 2),
                  Number(v.chars, 15, 2), Number(v.chars, 18, 2))

\* YYYY:MM:DD HH:MM:SS rewritten as YYYY-MM-DD HH:MM:SS.
Canonical(v) == [v.chars EXCEPT ![5] = "-", ![8] = "-"]

\* YYYY-MM-DD of the calendar date k days after the process started.
DateString(k) ==
    LET dt == DatetimeNow[k]
    IN  Pad4(dt.year) \o <<"-">> \o Pad2(dt.month) \o <<"-">> \o Pad2(dt.day)

\* s is the default date: the date of a day between the start of the process
\* and the call.
IsDefaultDate(s, call) == \E k \in 0..call.clock : s = DateString(k)

\* d + m/60 + s/3600 of the angle as written in the metadata.
ExactDecimal(t) ==
    RatAdd(RatAdd(Rat(t[1].n, t[1].d), RatDivInt(Rat(t[2].n, t[2].d), 60)),
           RatDivInt(Rat(t[3].n, t[3].d), 3600))

Tolerance == <<1, 1000000>>

Within(x, y) == RatLeq(RatAbs(RatSub(x, y)), Tolerance)

\* C1: whatever the input, get_exif_data does not raise and returns two
\* numbers and a non-empty string.
C1_NeverRaisesFullyPopulated ==
    ret.called =>
        /\ ~ret.raised
        /\ ret.lon[2] > 0
        /\ ret.lat[2] > 0
        /\ Len(ret.date) > 0

\* C1 witness: a call on an image whose GPS block and timestamp are both
\* malformed has returned.
C1_Witness ==
    /\ ret.called /\ ~ret.raised
    /\ HasGps(ret.img) /\ ~WellFormedGps(BlockOf(ret.img))
    /\ HasTimestamp(ret.img) /\ ~Strptime(TimestampOf(ret.img)).ok

\* C2: (lon, lat) is (0.0, 0.0) or both are converted from sub-keys 4 and 2
\* of the image's GPS block; a malformed block gives 0.0 for both.
C2_GpsNeverPartiallyDecoded ==
    ret.called =>
        /\ \/ ret.lon = Zero /\ ret.lat = Zero
           \/ /\ HasGps(ret.img)
              /\ WellFormedGps(BlockOf(ret.img))
              /\ ret.lon = DmsToDecimal(BlockOf(ret.img)[4])
              /\ ret.lat = DmsToDecimal(BlockOf(ret.img)[2])
        /\ (HasGps(ret.img) /\ ~WellFormedGps(BlockOf(ret.img)))
              => (ret.lon = Zero /\ ret.lat = Zero)

\* C3: with a malformed GPS block and a valid timestamp, in either order,
\* the result is the default GPS and the reformatted timestamp.
C3_MalformedGpsKeepsTimestamp ==
    (/\ ret.called
     /\ HasGps(ret.img) /\ ~WellFormedGps(BlockOf(ret.img))
     /\ HasTimestamp(ret.img) /\ IsExifTimestamp(TimestampOf(ret.img)))
    => /\ ret.lon = Zero
       /\ ret.lat = Zero
       /\ ret.date = Canonical(TimestampOf(ret.img))

\* C4: with a well-formed GPS block and a timestamp that does not parse, in
\* either order, the call returns the converted GPS values and the default
\* date, and does not raise.
C4_MalformedTimestampKeepsGps ==
    (/\ ret.called
     /\ HasGps(ret.img) /\ WellFormedGps(BlockOf(ret.img))
     /\ HasTimestamp(ret.img) /\ ~Strptime(TimestampOf(ret.img)).ok)
    => /\ ~ret.raised
       /\ ret.lon = DmsToDecimal(BlockOf(ret.img)[4])
       /\ ret.lat = DmsToDecimal(BlockOf(ret.img)[2])
       /\ IsDefaultDate(ret.date, ret)

\* C4 witness: the unparsable timestamp came first in the dictionary and the
\* GPS block after it was decoded to values other than the default.
C4_Witness ==
    /\ ret.called
    /\ HasGps(ret.img) /\ WellFormedGps(BlockOf(ret.img))
    /\ HasTimestamp(ret.img) /\ ~Strptime(TimestampOf(ret.img)).ok
    /\ ~ret.img.gpsFirst
    /\ ret.lon # Zero /\ ret.lat # Zero

\* The angle lies in the range C5 states: whole degrees in 0..179, whole
\* minutes in 0..59, seconds any number of [0, 59).
InDmsRange(t) ==
    /\ IsAngle(t)
    /\ t[1].d = 1 /\ t[1].n \in 0..179
    /\ t[2].d = 1 /\ t[2].n \in 0..59
    /\ t[3].n >= 0 /\ t[3].n < 59 * t[3].d

\* C5: for angles in range, each returned value is d + m/60 + s/3600 within
\* 1e-6.
C5_DmsWithinTolerance ==
    (/\ ret.called
     /\ HasGps(ret.img) /\ WellFormedGps(BlockOf(ret.img))
     /\ InDmsRange(BlockOf(ret.img)[2]) /\ InDmsRange(BlockOf(ret.img)[4]))
    => /\ Within(ret.lat, ExactDecimal(BlockOf(ret.img)[2]))
       /\ Within(ret.lon, ExactDecimal(BlockOf(ret.img)[4]))

\* The image yields no capture timestamp: it cannot be opened, carries no
\* timestamp tag, or carries one that does not parse.
NoValidTimestamp(img) ==
    ~HasTimestamp(img) \/ ~Strptime(TimestampOf(img)).ok

\* C6: a call on an image with no valid timestamp returns the date of the
\* wall clock at the time of the call, as YYYY-MM-DD.
C6_DefaultIsDateOfCall ==
    (ret.called /\ NoValidTimestamp(ret.img))
        => ret.date = DateString(ret.clock)

\* C7: an input that is no image, or an image whose metadata is absent or
\* empty, gives exactly (0.0, 0.0) and the non-empty default date.
C7_TotalDefaulting ==
    (/\ ret.called
     /\ \/ ret.img.kind \in {"none", "corrupt", "noexif"}
        \/ ret.img.kind = "exif" /\ Len(Items(ret.img)) = 0)
    => /\ ~ret.raised
       /\ ret.lon = Zero
       /\ ret.lat = Zero
       /\ Len(ret.date) > 0
       /\ IsDefaultDate(ret.date, ret)

\* C7 witness: a call on bytes that are no image has returned.
C7_Witness == ret.called /\ ret.img.kind = "corrupt" /\ ret.lon = Zero

\* C8: a timestamp valid as YYYY:MM:DD HH:MM:SS comes back as
\* YYYY-MM-DD HH:MM:SS with the same components, with or without a GPS
\* block in the image.
C8_TimestampReformatted ==
    (/\ ret.called
     /\ HasTimestamp(ret.img) /\ IsExifTimestamp(TimestampOf(ret.img)))
    => ret.date = Canonical(TimestampOf(ret.img))

\* C9: a run of main in which get_exif_data returns exactly (0.0, 0.0)
\* renders no map and no marker, and shows the warning.
C9_NoMapWithoutLocation ==
    (ret.called /\ ~ret.raised /\ ret.lon = Zero /\ ret.lat = Zero
        /\ session["img_long"] = Float(Zero))
    => (~page.map /\ page.warning)

\* C10 as stated: a call on the image of the first call returns the same
\* longitude and latitude and, when the image carries the timestamp tag, the
\* same captured_at.
C10_IdempotentWhenTagPresent ==
    (first.called /\ ret.called /\ ret.img = first.img)
    => /\ ret.lon = first.lon
       /\ ret.lat = first.lat
       /\ HasTimestamp(ret.img) => ret.date = first.date

\* C10 amended: a call on the image of the first call, whatever was
\* extracted in between, returns the same longitude and latitude and, when
\* the first call returned a parsed capture timestamp and not the default
\* date, the same captured_at.
C10_IdempotentWhenParsed ==
    (first.called /\ ret.called /\ ret.img = first.img)
    => /\ ret.lon = first.lon
       /\ ret.lat = first.lat
       /\ ~IsDefaultDate(first.date, first) => ret.date = first.date

\* C10 witness: a later run, on a later day and after a diagnosis request
\* has read the file, extracts the image of the first call again and
\* returns its GPS values and its parsed timestamp.
C10_Witness ==
    /\ first.called /\ ret.called /\ ret.img = first.img
    /\ ret.clock > first.clock
    /\ Truthy(session["diagnostic"])
    /\ ret.lat # Zero
    /\ ~IsDefaultDate(ret.date, ret)

\* The metadata of a and b differ only in GPS sub-keys other than 2 and 4.
DiffersOutsideDms(a, b) ==
    /\ HasGps(a) /\ HasGps(b)
    /\ a.ts = b.ts /\ a.gpsFirst = b.gpsFirst
    /\ \A key \in {2, 4} :
        /\ key \in DOMAIN BlockOf(a) <=> key \in DOMAIN BlockOf(b)
        /\ key \in DOMAIN BlockOf(a) => BlockOf(a)[key] = BlockOf(b)[key]

\* Every degree, minute and second the block holds is a number >= 0.
NonNegativeDms(b) ==
    \A key \in {2, 4} \cap DOMAIN b :
        \A i \in 1..Len(b[key]) :
            b[key][i].k = "num" => b[key][i].n >= 0 /\ b[key][i].d >= 0

\* What get_exif_data returned in call c.
Returned(c) == <<c.raised, c.lon, c.lat, c.date>>

\* C11: get_exif_data returns for the image of the call what it returns,
\* at the same moment, for every image whose metadata differ from it only
\* in GPS sub-keys other than 2 and 4 (the hemisphere references), and for
\* degrees, minutes and seconds >= 0 the longitude and latitude it returns
\* are not negative.
C11_NoHemisphereCorrection ==
    ret.called =>
        /\ \A other \in Images :
              DiffersOutsideDms(ret.img, other) =>
                Returned(CallOf(other, 0, ret.clock, NOW, padsYear))
                    = Returned(ret)
        /\ (HasGps(ret.img) /\ NonNegativeDms(BlockOf(ret.img))) =>
              RatLeq(Zero, ret.lon) /\ RatLeq(Zero, ret.lat)

\* C11 witness: a call on an image whose GPS block carries a South
\* reference returns the positive latitude and longitude of its tuples.
C11_Witness ==
    /\ ret.called /\ HasGps(ret.img)
    /\ 1 \in DOMAIN BlockOf(ret.img) /\ BlockOf(ret.img)[1] = <<"S">>
    /\ \E other \in Images \ {ret.img} : DiffersOutsideDms(ret.img, other)
    /\ ret.lat = DmsToDecimal(ParisLat)
    /\ ret.lon = DmsToDecimal(ParisLon)

\* The last script run invoked call_api_solutions: the call returned or
\* raised.
SolutionsRequested == page.planned \/ page.failed

\* C12: a script run invokes call_api_solutions only while the session
\* holds a non-empty diagnostic that call_api_diagnostic returned for the
\* file the uploader holds; from a change or removal of that file until a
\* diagnosis is stored again, the session holds no diagnostic, the form is
\* not on the page and no solutions request is made.
C12_SolutionsAfterDiagnostic ==
    /\ SolutionsRequested =>
          /\ diagnosedUpload
          /\ uploaded_file # NoImage
          /\ Truthy(Get(session, "diagnostic"))
    /\ ~diagnosedUpload =>
          /\ ~Truthy(Get(session, "diagnostic"))
          /\ ~page.form
          /\ ~SolutionsRequested

\* C12 witness: a second file has been uploaded after a diagnosis of the
\* first, diagnosed in its turn, and the plan requested for it.
C12_Witness ==
    /\ SolutionsRequested
    /\ diagnosedUpload
    /\ first.called /\ uploaded_file # first.img
    /\ Truthy(Get(session, "diagnostic"))

\* The last script run made an action-plan request that failed:
\* call_api_solutions raised, or returned no value.
PlanRequestFailed ==
    \/ page.failed
    \/ page.planned /\ Get(session, "solutions") = None

\* C13: after an action-plan request that fails, the session holds no
\* solutions and the page shows no treatment plan.
C13_NoPlanAfterFailedRequest ==
    PlanRequestFailed =>
        /\ ~Truthy(Get(session, "solutions"))
        /\ ~page.plan

\* C14: previous_file is None or absent from the session, and no script
\* run takes the "Fichier supprime" branch.
C14_PreviousFileAlwaysNone ==
    /\ Get(session, "previous_file") = None
    /\ ~page.removed

\* C14 witness: a file has been uploaded and removed, and the run that
\* follows the removal has shown the uploader again.
C14_Witness ==
    /\ first.called
    /\ uploaded_file = NoImage
    /\ page.uploader
    /\ "previous_file" \in DOMAIN session
    /\ session["previous_file"] = None
    /\ ~Truthy(Get(session, "diagnostic"))

====
